---- MODULE Spec2Model ----
(***************************************************************************)
(* Model of src/lib/map.ts: calculateDriverTimes, the fare/ETA estimation  *)
(* of the ride-booking client.  One call of calculateDriverTimes is        *)
(* modelled: the guards, the fan-out of one async task per marker, the two *)
(* sequential routing requests of every task, the per-driver catch, the    *)
(* Promise.all join and the outer catch.                                   *)
(*                                                                         *)
(* JavaScript numbers are modelled exactly as fixed-point values: the      *)
(* integer v of a number record stands for v / Scale.  Every division the  *)
(* code performs (/ 40, / 60, * 0.5) is exact at this scale for the        *)
(* integer kilometres and seconds of the model.  NaN and undefined are     *)
(* values of their own.                                                    *)
(***************************************************************************)
EXTENDS Integers, Sequences, FiniteSets, TLC

VARIABLES
    markers,               \* argument markers: MarkerData[]
    userLatitude,          \* argument userLatitude: number | null
    userLongitude,         \* argument userLongitude: number | null
    destinationLatitude,   \* argument destinationLatitude: number | null
    destinationLongitude,  \* argument destinationLongitude: number | null
    geoapifyAPI,           \* process.env.EXPO_PUBLIC_GEOAPIFY_API_KEY
    pc,                    \* position of the call: "called", "awaiting", "returned"
    task,                  \* timesPromises: one async task per marker
    order,                 \* indices of the tasks in the order they settled
    results,               \* value the call returned
    drivers,               \* useDriverStore: drivers
    regionArgs,            \* arguments of a call of calculateRegion
    region,                \* value calculateRegion returned
    bookRide,              \* the book-ride screen (BookRideContent)
    payment,               \* the Payment component
    home                   \* the home screen (Page)

vars == <<markers, userLatitude, userLongitude, destinationLatitude,
          destinationLongitude, geoapifyAPI, pc, task, order, results,
          drivers, regionArgs, region, bookRide, payment, home>>

\* the screens of the app
screens == <<bookRide, payment, home>>

\* what a call of calculateDriverTimes neither reads nor writes
outsideDriverTimes == <<drivers, regionArgs, region, screens>>

\* a screen that is not on display
Unmounted == [pc |-> "unmounted"]

-----------------------------------------------------------------------------
(* Bounds and input domains                                                *)

MaxDrivers == 2

\* whole degrees; 0 is a legal latitude (equator) and longitude (Greenwich)
Degrees == {0, 1, 2}
UserDegrees == {0, 1}
DestinationLatDegrees == {0, 2}

\* times in seconds a routing response can report
ProviderTimes == {0, 300, 600}

-----------------------------------------------------------------------------
(* JavaScript values                                                       *)

Scale == 40 * 3

Num(v) == [t |-> "num", v |-> v]
FromInt(n) == Num(n * Scale)
NaN == [t |-> "nan", v |-> 0]
Undefined == [t |-> "undef", v |-> 0]
Null == [t |-> "null", v |-> 0]
\* a non-empty string, the API key
KeyString == [t |-> "str", v |-> 1]
\* the evaluation of the expression threw (TypeError)
Thrown == [t |-> "thrown", v |-> 0]

\* x + y on numbers; undefined + number and NaN + number are NaN
Add(x, y) ==
    IF x.t = "num" /\ y.t = "num" THEN Num(x.v + y.v) ELSE NaN

\* x / k for a numeric literal k
DivK(x, k) ==
    IF x.t = "num" THEN Num(x.v \div k) ELSE NaN

\* x * k for an integer literal k
MulK(x, k) ==
    IF x.t = "num" THEN Num(x.v * k) ELSE NaN

\* x * 0.5
MulHalf(x) ==
    IF x.t = "num" THEN Num(x.v \div 2) ELSE NaN

\* !x : null, undefined, NaN and 0 are falsy
Falsy(x) ==
    \/ x.t \in {"nan", "undef", "null"}
    \/ x.t = "num" /\ x.v = 0

\* x || y
OrElse(x, y) == IF Falsy(x) THEN y ELSE x

\* Number.prototype.toFixed(2): a string with two decimals, "NaN" for NaN
Fixed2(c) == [t |-> "fixed2", cents |-> c]
NaNString == [t |-> "NaN", cents |-> 0]

toFixed2(x) ==
    IF x.t = "num"
    THEN Fixed2((x.v * 100 + (Scale \div 2)) \div Scale)
    ELSE NaNString

-----------------------------------------------------------------------------
(* calculateDistance: haversine distance in km, R = 6371.  The formula is  *)
(* tabulated on the whole-degree grid of Degrees and rounded to whole      *)
(* kilometres; at that precision the cos(lat1) * cos(lat2) factor does not *)
(* change any value of the grid, so the table is keyed by |dLat|, |dLon|.  *)

Abs(n) == IF n < 0 THEN -n ELSE n

HaversineKm(dLat, dLon) ==
    CASE dLat = 0 /\ dLon = 0 -> 0
      [] dLat = 0 /\ dLon = 1 -> 111
      [] dLat = 0 /\ dLon = 2 -> 222
      [] dLat = 1 /\ dLon = 0 -> 111
      [] dLat = 1 /\ dLon = 1 -> 157
      [] dLat = 1 /\ dLon = 2 -> 249
      [] dLat = 2 /\ dLon = 0 -> 222
      [] dLat = 2 /\ dLon = 1 -> 249
      [] dLat = 2 /\ dLon = 2 -> 314

calculateDistance(lat1, lon1, lat2, lon2) ==
    FromInt(HaversineKm(Abs(lat2.v - lat1.v) \div Scale,
                        Abs(lon2.v - lon1.v) \div Scale))

-----------------------------------------------------------------------------
(* Routing responses: what `await fetch(...)` followed by                  *)
(* `await response.json()` can produce.                                    *)

Resp(k, s) == [k |-> k, time |-> s]

Responses ==
    {Resp("throw", 0),      \* fetch or json() rejects
     Resp("empty", 0),      \* features absent or features.length === 0
     Resp("notime", 0),     \* features[0].properties has no time
     Resp("noprops", 0)}    \* features[0] has no properties
    \cup {Resp("time", s) : s \in ProviderTimes}

NoResp == Resp("none", 0)

\* !data.features || data.features.length === 0
FeaturesMissing(r) == r.k = "empty"

\* data.features[0].properties.time
PropsTime(r) ==
    CASE r.k = "time" -> FromInt(r.time)
      [] r.k = "notime" -> Undefined
      [] OTHER -> Thrown

\* data.features?.[0]?.properties?.time
OptTime(r) ==
    IF r.k = "time" THEN FromInt(r.time) ELSE Undefined

-----------------------------------------------------------------------------
(* The markers                                                             *)

MarkerAt(i) ==
    [id |-> 100 + i, latitude |-> FromInt(i % 3),
     longitude |-> FromInt(((i + 1) \div 2) % 3)]

\* the marker lists of 0..MaxDrivers drivers
MarkerLists == {[i \in 1..n |-> MarkerAt(i)] : n \in 0..MaxDrivers}

\* Entry losing the price: only the time is attached
EntryWithoutPrice(marker, time, price) ==
    [id |-> marker.id, latitude |-> marker.latitude,
     longitude |-> marker.longitude, time |-> time]

\* { ...marker, time, price }
Entry(marker, time, price) ==
    [id |-> marker.id, latitude |-> marker.latitude,
     longitude |-> marker.longitude, time |-> time, price |-> price]

NoEntry == [id |-> 0, latitude |-> Undefined, longitude |-> Undefined,
            time |-> Undefined, price |-> NaNString]

\* the value of the call: undefined (a bare `return;`) or an array
ReturnedUndefined == [t |-> "undef", list |-> <<>>]
ReturnedList(l) == [t |-> "list", list |-> l]

\* a coordinate argument: number | null
CoordArgs(degrees) == {Null} \cup {FromInt(d) : d \in degrees}

-----------------------------------------------------------------------------
(* The body of the async task mapped over every marker (lines 104-187)     *)

\* FallbackToUser counting an empty leg A as zero time
FallbackToUserZero(marker) == FromInt(0)

\* lines 116-122: fallback time of leg A in seconds, 40 km/h average
FallbackToUser(marker) ==
    MulK(DivK(calculateDistance(marker.latitude, marker.longitude,
                                userLatitude, userLongitude), 40), 3600)

\* lines 130, 151-157: fallback time of leg B in seconds
FallbackToDestination ==
    MulK(DivK(calculateDistance(userLatitude, userLongitude,
                                destinationLatitude, destinationLongitude), 40), 3600)

\* Annotate leaving the total in seconds
AnnotateInSeconds(marker, timeToUser, timeToDestination) ==
    LET totalTime == Add(timeToUser, timeToDestination)
        price == toFixed2(MulHalf(totalTime))
    IN  Entry(marker, totalTime, price)

\* Annotate with the division by 60 left out: the price taken from seconds
AnnotatePriceFromSeconds(marker, timeToUser, timeToDestination) ==
    LET totalTime == DivK(Add(timeToUser, timeToDestination), 60)
        price == toFixed2(MulHalf(Add(timeToUser, timeToDestination)))
    IN  Entry(marker, totalTime, price)

\* lines 132-135, 158-161, 167-172: total time in minutes, $0.50 per minute
Annotate(marker, timeToUser, timeToDestination) ==
    LET totalTime == DivK(Add(timeToUser, timeToDestination), 60)
        price == toFixed2(MulHalf(totalTime))
    IN  Entry(marker, totalTime, price)

\* CatchEntry estimating from the driver's position instead of the rider's
CatchEntryFromDriver(marker) ==
    LET distance == calculateDistance(marker.latitude, marker.longitude,
                                      destinationLatitude, destinationLongitude)
        estimatedTime == MulK(DivK(distance, 40), 60)
        estimatedPrice == toFixed2(MulHalf(estimatedTime))
    IN  Entry(marker, estimatedTime, estimatedPrice)

\* lines 173-186: the per-driver catch
CatchEntry(marker) ==
    LET distance == calculateDistance(userLatitude, userLongitude,
                                      destinationLatitude, destinationLongitude)
        estimatedTime == MulK(DivK(distance, 40), 60)
        estimatedPrice == toFixed2(MulHalf(estimatedTime))
    IN  Entry(marker, estimatedTime, estimatedPrice)

\* OnThrow retrying instead of estimating: the catch issues leg A again
OnThrowRetry(marker) ==
    [pc |-> "legA", via |-> "none", entry |-> NoEntry, requests |-> <<"toUser">>]

\* OnThrow without the try/catch: the exception leaves the task
OnThrowRethrow(marker) ==
    [pc |-> "rejected", via |-> "catch", entry |-> NoEntry]

\* what the task does with an exception thrown inside its try block
OnThrow(marker) ==
    [pc |-> "done", via |-> "catch", entry |-> CatchEntry(marker)]

\* LegA giving up on an empty leg A: no fallback, no leg B request
LegAShortCircuit(marker, r) ==
    IF r.k = "throw" \/ FeaturesMissing(r) \/ PropsTime(r) = Thrown
    THEN [next |-> "catch", timeToUser |-> Undefined]
    ELSE [next |-> "routedA", timeToUser |-> PropsTime(r)]

\* lines 107-124 and 139-142: the leg A response arrives; the task runs up
\* to its next await (the leg B request) or into its catch
LegA(marker, r) ==
    IF r.k = "throw"
    THEN [next |-> "catch", timeToUser |-> Undefined]
    ELSE IF FeaturesMissing(r)
    THEN [next |-> "fallbackA", timeToUser |-> FallbackToUser(marker)]
    ELSE IF PropsTime(r) = Thrown
    THEN [next |-> "catch", timeToUser |-> Undefined]
    ELSE [next |-> "routedA", timeToUser |-> PropsTime(r)]

\* line 129-130: leg B time in the branch where leg A fell back
TimeToDestinationAfterFallback(r) ==
    OrElse(OptTime(r), FallbackToDestination)

\* lines 148-165: leg B time in the branch where leg A was routed
TimeToDestinationAfterRouted(r) ==
    IF FeaturesMissing(r) THEN FallbackToDestination ELSE PropsTime(r)

\* lines 127-135 and 145-172: the leg B response arrives; the task returns
\* its entry or runs into its catch
LegB(branch, r) ==
    IF r.k = "throw"
    THEN [next |-> "catch", timeToDestination |-> Undefined]
    ELSE IF branch = "fallbackA"
    THEN [next |-> "fallbackA", timeToDestination |-> TimeToDestinationAfterFallback(r)]
    ELSE IF FeaturesMissing(r)
    THEN [next |-> "fallbackB", timeToDestination |-> TimeToDestinationAfterRouted(r)]
    ELSE IF PropsTime(r) = Thrown
    THEN [next |-> "catch", timeToDestination |-> Undefined]
    ELSE [next |-> "routed", timeToDestination |-> TimeToDestinationAfterRouted(r)]

\* TimeToUserOf with timeToUser hoisted out of the closure: one variable for
\* all tasks, holding what the first task stored
TimeToUserShared(i) == task[1].timeToUser

\* the closure-local `const timeToUser` of task i
TimeToUserOf(i) == task[i].timeToUser

\* lines 104-187 as a function of the marker and of the two responses the
\* task receives (rB is not read when leg A already threw)
DriverEntry(marker, rA, rB) ==
    LET a == LegA(marker, rA)
        b == LegB(a.next, rB)
    IN  IF a.next = "catch" \/ b.next = "catch"
        THEN CatchEntry(marker)
        ELSE Annotate(marker, a.timeToUser, b.timeToDestination)

\* a task before the call started it
IdleTask ==
    [pc |-> "idle", via |-> "none", respA |-> NoResp, respB |-> NoResp,
     timeToUser |-> Undefined, timeToDestination |-> Undefined,
     entry |-> NoEntry, requests |-> <<>>]

\* the promise of a task is fulfilled or rejected
Settled(t) == t.pc \in {"done", "rejected"}

\* lines 104-109: markers.map calls the async function, which runs up to its
\* first await: the leg A request is in flight
StartedTask ==
    [IdleTask EXCEPT !.pc = "legA", !.requests = <<"toUser">>]

-----------------------------------------------------------------------------
(* Promise.all and the outer try/catch (lines 189-206)                     *)

Indices == 1..Len(markers)

\* PromiseAll collecting the values in the order the tasks settled
PromiseAllByCompletion == [i \in Indices |-> task[order[i]].entry]

\* Promise.all(timesPromises): the values in the order of the promises
PromiseAll == [i \in Indices |-> task[i].entry]

\* BatchEntry estimating from the driver's position instead of the rider's
BatchEntryFromDriver(marker) ==
    LET distance == calculateDistance(marker.latitude, marker.longitude,
                                      destinationLatitude, destinationLongitude)
        estimatedTime == MulK(DivK(distance, 40), 60)
        estimatedPrice == toFixed2(MulHalf(estimatedTime))
    IN  Entry(marker, estimatedTime, estimatedPrice)

\* lines 195-205: markers.map with the trip-level estimate
BatchEntry(marker) ==
    LET distance == calculateDistance(userLatitude, userLongitude,
                                      destinationLatitude, destinationLongitude)
        estimatedTime == MulK(DivK(distance, 40), 60)
        estimatedPrice == toFixed2(MulHalf(estimatedTime))
    IN  Entry(marker, estimatedTime, estimatedPrice)

BatchFallback == [i \in Indices |-> BatchEntry(markers[i])]

-----------------------------------------------------------------------------
(* calculateRegion (lines 27-73).  Coordinates and deltas are fixed-point  *)
(* numbers in units of 1 / RegionScale degree.                             *)

RegionScale == 100 * 1000

NoRegionArgs ==
    [userLatitude |-> Undefined, userLongitude |-> Undefined,
     destinationLatitude |-> Undefined, destinationLongitude |-> Undefined]

NoRegion ==
    [latitude |-> Undefined, longitude |-> Undefined,
     latitudeDelta |-> Undefined, longitudeDelta |-> Undefined]

\* d whole degrees
Deg(d) == Num(d * RegionScale)

\* 0.01 degree
DefaultDelta == Num(RegionScale \div 100)

\* lines 39-45: latitude 37.78825, longitude -122.4324, deltas 0.01
DefaultRegion ==
    [latitude |-> Num(3778825), longitude |-> Num(0 - 12243240),
     latitudeDelta |-> DefaultDelta, longitudeDelta |-> DefaultDelta]

\* lines 48-54: the rider as center, deltas 0.01
RiderRegion(args) ==
    [latitude |-> args.userLatitude, longitude |-> args.userLongitude,
     latitudeDelta |-> DefaultDelta, longitudeDelta |-> DefaultDelta]

Min(a, b) == IF a <= b THEN a ELSE b
Max(a, b) == IF a >= b THEN a ELSE b

\* lines 57-72: the midpoint as center, deltas 1.3 times the span per axis
SpanRegion(args) ==
    LET uLat == args.userLatitude.v
        uLng == args.userLongitude.v
        dLat == args.destinationLatitude.v
        dLng == args.destinationLongitude.v
        minLat == Min(uLat, dLat)
        maxLat == Max(uLat, dLat)
        minLng == Min(uLng, dLng)
        maxLng == Max(uLng, dLng)
    IN  [latitude |-> Num((uLat + dLat) \div 2),
         longitude |-> Num((uLng + dLng) \div 2),
         latitudeDelta |-> Num(((maxLat - minLat) * 13) \div 10),
         longitudeDelta |-> Num(((maxLng - minLng) * 13) \div 10)]

\* lines 27-73
calculateRegion(args) ==
    IF Falsy(args.userLatitude) \/ Falsy(args.userLongitude)
    THEN DefaultRegion
    ELSE IF Falsy(args.destinationLatitude) \/ Falsy(args.destinationLongitude)
         THEN RiderRegion(args)
         ELSE SpanRegion(args)

\* the rider coordinates a caller passes: number | null
UserCoordinates == {Null, Deg(0), Deg(1), Deg(0 - 2)}

\* the destination coordinates a caller passes: number | null, or left out
DestinationCoordinates == {Undefined, Null, Deg(0), Deg(1), Deg(3)}

-----------------------------------------------------------------------------
(* The state machine                                                       *)

Init ==
    /\ markers \in MarkerLists
    /\ userLatitude \in CoordArgs(UserDegrees)
    /\ userLongitude \in CoordArgs(UserDegrees)
    /\ destinationLatitude \in CoordArgs(DestinationLatDegrees)
    /\ destinationLongitude \in CoordArgs(Degrees)
    /\ geoapifyAPI \in {Undefined, KeyString}
    /\ pc = "called"
    /\ task = [i \in 1..Len(markers) |-> IdleTask]
    /\ order = <<>>
    /\ results = ReturnedUndefined
    /\ drivers = <<>>
    /\ regionArgs = NoRegionArgs
    /\ region = NoRegion
    /\ bookRide = Unmounted
    /\ payment = Unmounted
    /\ home = Unmounted

\* lines 88-104: the guards, then markers.map starts every task, each of which
\* runs synchronously up to its first await (the leg A request)
Call ==
    /\ pc = "called"
    /\ IF \/ Falsy(userLatitude)
          \/ Falsy(userLongitude)
          \/ Falsy(destinationLatitude)
          \/ Falsy(destinationLongitude)
          \/ Falsy(geoapifyAPI)
       THEN /\ pc' = "returned"
            /\ results' = ReturnedUndefined
            /\ task' = task
       ELSE /\ pc' = "awaiting"
            /\ results' = results
            /\ task' = [i \in Indices |-> StartedTask]
    /\ UNCHANGED <<markers, userLatitude, userLongitude, destinationLatitude,
                   destinationLongitude, geoapifyAPI, order>>
    /\ UNCHANGED outsideDriverTimes

\* the leg A response of task i arrives
RespondToUser(i, r) ==
    /\ pc = "awaiting"
    /\ task[i].pc = "legA"
    /\ LET a == LegA(markers[i], r)
       IN  IF a.next = "catch"
           THEN /\ task' = [task EXCEPT ![i] =
                        OnThrow(markers[i]) @@ [@ EXCEPT !.respA = r]]
                /\ order' = IF Settled(task'[i]) THEN Append(order, i) ELSE order
           ELSE /\ task' = [task EXCEPT ![i] =
                        [@ EXCEPT !.pc = "legB", !.via = a.next, !.respA = r,
                                  !.timeToUser = a.timeToUser,
                                  !.requests = Append(@, "toDestination")]]
                /\ order' = order
    /\ UNCHANGED <<markers, userLatitude, userLongitude, destinationLatitude,
                   destinationLongitude, geoapifyAPI, pc, results>>
    /\ UNCHANGED outsideDriverTimes

\* the leg B response of task i arrives
RespondToDestination(i, r) ==
    /\ pc = "awaiting"
    /\ task[i].pc = "legB"
    /\ LET b == LegB(task[i].via, r)
       IN  IF b.next = "catch"
           THEN task' = [task EXCEPT ![i] =
                        OnThrow(markers[i]) @@ [@ EXCEPT !.respB = r]]
           ELSE task' = [task EXCEPT ![i] =
                        [@ EXCEPT !.pc = "done", !.via = b.next, !.respB = r,
                                  !.timeToDestination = b.timeToDestination,
                                  !.entry = Annotate(markers[i], TimeToUserOf(i),
                                                     b.timeToDestination)]]
    /\ order' = IF Settled(task'[i]) THEN Append(order, i) ELSE order
    /\ UNCHANGED <<markers, userLatitude, userLongitude, destinationLatitude,
                   destinationLongitude, geoapifyAPI, pc, results>>
    /\ UNCHANGED outsideDriverTimes

\* Return writing time and price into the caller's markers in place
ReturnAnnotatingInPlace ==
    /\ pc = "awaiting"
    /\ \A i \in Indices : task[i].pc = "done"
    /\ results' = ReturnedList(PromiseAll)
    /\ markers' = results'.list
    /\ pc' = "returned"
    /\ UNCHANGED <<userLatitude, userLongitude, destinationLatitude,
                   destinationLongitude, geoapifyAPI, task, order>>
    /\ UNCHANGED outsideDriverTimes

\* Return resuming as soon as one task is done (a race instead of an all)
ReturnAfterFirst ==
    /\ pc = "awaiting"
    /\ \E i \in Indices : task[i].pc = "done"
    /\ results' = ReturnedList(PromiseAll)
    /\ pc' = "returned"
    /\ UNCHANGED <<markers, userLatitude, userLongitude, destinationLatitude,
                   destinationLongitude, geoapifyAPI, task, order>>
    /\ UNCHANGED outsideDriverTimes

\* lines 189-206: Promise.all settles; a rejection is caught by the outer catch
Return ==
    /\ pc = "awaiting"
    /\ IF \E i \in Indices : task[i].pc = "rejected"
       THEN results' = ReturnedList(BatchFallback)
       ELSE /\ \A i \in Indices : task[i].pc = "done"
            /\ results' = ReturnedList(PromiseAll)
    /\ pc' = "returned"
    /\ UNCHANGED <<markers, userLatitude, userLongitude, destinationLatitude,
                   destinationLongitude, geoapifyAPI, task, order>>
    /\ UNCHANGED outsideDriverTimes

Next ==
    \/ Call
    \/ \E i \in Indices, r \in Responses : RespondToUser(i, r)
    \/ \E i \in Indices, r \in Responses : RespondToDestination(i, r)
    \/ Return

Spec == Init /\ [][Next]_vars

\* An exception leaves task i: one raised where the task's try block does not
\* reach, inside its catch handler (lines 174-185).  The promise of the task
\* rejects and with it Promise.all.
TaskRejects(i) ==
    /\ pc = "awaiting"
    /\ task[i].pc \in {"legA", "legB"}
    /\ task' = [task EXCEPT ![i].pc = "rejected"]
    /\ order' = Append(order, i)
    /\ UNCHANGED <<markers, userLatitude, userLongitude, destinationLatitude,
                   destinationLongitude, geoapifyAPI, pc, results>>
    /\ UNCHANGED outsideDriverTimes

NextFanOutFault ==
    \/ Call
    \/ \E i \in Indices, r \in Responses : RespondToUser(i, r)
    \/ \E i \in Indices, r \in Responses : RespondToDestination(i, r)
    \/ \E i \in Indices : TaskRejects(i)
    \/ Return

\* Every routing call eventually returns or throws and the event loop runs
\* every continuation that is ready: no enabled step is postponed forever.
FairSpec == Spec /\ WF_vars(Next)

\* useDriverStore.setDrivers (home.tsx:644-646) called with the output of
\* generateMarkersFromData, the list that is also passed as markers
SetDriversToMarkers ==
    /\ drivers' = markers
    /\ UNCHANGED <<markers, userLatitude, userLongitude, destinationLatitude,
                   destinationLongitude, geoapifyAPI, pc, task, order, results,
                   regionArgs, region, screens>>

\* useDriverStore.setDrivers called with the list calculateDriverTimes returned
SetDriversToResults ==
    /\ pc = "returned"
    /\ results.t = "list"
    /\ drivers' = results.list
    /\ UNCHANGED <<markers, userLatitude, userLongitude, destinationLatitude,
                   destinationLongitude, geoapifyAPI, pc, task, order, results,
                   regionArgs, region, screens>>

NextStore ==
    \/ Call
    \/ \E i \in Indices, r \in Responses : RespondToUser(i, r)
    \/ \E i \in Indices, r \in Responses : RespondToDestination(i, r)
    \/ Return
    \/ SetDriversToMarkers
    \/ SetDriversToResults

\* calculateDriverTimes together with the driver store its caller fills
SpecStore == Init /\ [][NextStore]_vars

\* calculateDriverTimes when the fan-out can fail
SpecFanOutFault == Init /\ [][NextFanOutFault]_vars

\* a caller about to call calculateRegion; no calculateDriverTimes call
InitRegion ==
    /\ markers = <<>>
    /\ userLatitude = Null
    /\ userLongitude = Null
    /\ destinationLatitude = Null
    /\ destinationLongitude = Null
    /\ geoapifyAPI = Undefined
    /\ pc = "idle"
    /\ task = <<>>
    /\ order = <<>>
    /\ results = ReturnedUndefined
    /\ drivers = <<>>
    /\ regionArgs \in [userLatitude : UserCoordinates,
                        userLongitude : UserCoordinates,
                        destinationLatitude : DestinationCoordinates,
                        destinationLongitude : DestinationCoordinates]
    /\ region = NoRegion
    /\ bookRide = Unmounted
    /\ payment = Unmounted
    /\ home = Unmounted

\* the call of calculateRegion with the arguments of the caller
CalculateRegion ==
    /\ pc = "idle"
    /\ region = NoRegion
    /\ region' = calculateRegion(regionArgs)
    /\ UNCHANGED <<markers, userLatitude, userLongitude, destinationLatitude,
                   destinationLongitude, geoapifyAPI, pc, task, order, results,
                   drivers, regionArgs, screens>>

NextRegion == CalculateRegion

SpecRegion == InitRegion /\ [][NextRegion]_vars

-----------------------------------------------------------------------------
(* The book-ride screen (src/app/(root)/book-ride.tsx).  Money is counted  *)
(* in hundredths of a dollar.                                              *)

\* handlePayment invocations of one visit of the screen
MaxAttempts == 2

\* obj.field, undefined when the object has no such field
Get(obj, field) == IF field \in DOMAIN obj THEN obj[field] ELSE Undefined

\* a number of dollars, h hundredths
Hundredths(h) == [t |-> "num", h |-> h]
NotANumber == [t |-> "nan", h |-> 0]

\* parseFloat of a price string
parseFloat(str) ==
    IF str.t = "fixed2" THEN Hundredths(str.cents) ELSE NotANumber

\* parseInt of a price string: the digits before the decimal point
parseInt(str) ==
    IF str.t = "fixed2" THEN Hundredths((str.cents \div 100) * 100) ELSE NotANumber

\* x * 100, as the integer the request body carries (NaN is sent as null)
Times100(x) ==
    IF x.t = "num" THEN [t |-> "int", n |-> x.h] ELSE [t |-> "null", n |-> 0]

\* the times in minutes the estimation attaches: NaN, 0, 0.5, 1, 15, 166.5
BookRideTimes ==
    {NaN, FromInt(0), Num(Scale \div 2), FromInt(1), FromInt(15),
     Num((333 * Scale) \div 2)}

\* a driver as calculateDriverTimes returns it for a time
EstimatedDriver(time) == Entry(MarkerAt(1), time, toFixed2(MulHalf(time)))

\* the driver lists of the store: empty, a driver as fetched, estimated drivers
BookRideDriverLists ==
    {<<>>, <<MarkerAt(1)>>} \cup {<<EstimatedDriver(time)>> : time \in BookRideTimes}

\* selectedDriver of the store: null or an id
SelectedDrivers == {Null, Num(101), Num(102)}

\* line 25-27: drivers?.find((driver) => driver.id === selectedDriver)
driverDetails ==
    LET found == {i \in DOMAIN drivers :
                     bookRide.selectedDriver.t = "num"
                     /\ drivers[i].id = bookRide.selectedDriver.v}
    IN  IF found = {} THEN Undefined
        ELSE drivers[CHOOSE i \in found : \A j \in found : i <= j]

NoDriverDetails == "id" \notin DOMAIN driverDetails

\* line 34
isDriverDataIncomplete ==
    \/ NoDriverDetails
    \/ Falsy(Get(driverDetails, "price"))
    \/ Falsy(Get(driverDetails, "time"))

\* line 86: driverDetails.price?.toString() || "0"
AmountOf(price) == IF price.t = "undef" THEN Fixed2(0) ELSE price

\* the minimum check left out
BelowMinimumNever(numericAmount) == FALSE

\* line 92: numericAmount < 0.5 (false for NaN)
BelowMinimum(numericAmount) == numericAmount.t = "num" /\ numericAmount.h < 50

\* line 172: parseInt(driverDetails.price.toString()) * 100, or 0
FarePrice(price) ==
    IF Falsy(price) THEN [t |-> "int", n |-> 0] ELSE Times100(parseInt(price))

\* what the book-ride screen does not write
outsideBookRide ==
    <<markers, userLatitude, userLongitude, destinationLatitude,
      destinationLongitude, geoapifyAPI, pc, task, order, results, drivers,
      regionArgs, region, payment, home>>

\* lines 19-22: the screen as first rendered, for a selectedDriver of the store
BookRideRendered(selected) ==
    [pc |-> "rendered", selectedDriver |-> selected,
     loading |-> FALSE, success |-> FALSE,
     attempts |-> 0,           \* invocations of handlePayment so far
     created |-> <<>>,         \* amounts of the payment-intent requests sent
     presented |-> 0,          \* calls of presentPaymentSheet so far
     rides |-> <<>>,           \* fare_price of the ride creation requests sent
     createResult |-> "none",  \* outcomes of the steps of this invocation
     initResult |-> "none",
     presentResult |-> "none",
     rideResult |-> "none"]

InitBookRide ==
    /\ markers = <<>>
    /\ userLatitude = Null
    /\ userLongitude = Null
    /\ destinationLatitude = Null
    /\ destinationLongitude = Null
    /\ geoapifyAPI = Undefined
    /\ pc = "idle"
    /\ task = <<>>
    /\ order = <<>>
    /\ results = ReturnedUndefined
    /\ drivers \in BookRideDriverLists
    /\ regionArgs = NoRegionArgs
    /\ region = NoRegion
    /\ bookRide \in {BookRideRendered(selected) : selected \in SelectedDrivers}
    /\ payment = Unmounted
    /\ home = Unmounted

\* setLoading(false); return
GiveUp(b) == [b EXCEPT !.loading = FALSE, !.pc = "rendered"]

\* the catch of the ride creation leaving loading set
OnRideErrorStillLoading(b) == [b EXCEPT !.pc = "rendered"]

\* lines 200-207: the ride creation failed after the payment
OnRideError(b) == GiveUp(b)

\* an error of the payment sheet taken as a payment
PaymentErrorIgnored(r) == FALSE

\* line 160: presentPaymentSheet returned an error
PaymentError(r) == r \in {"Canceled", "Failed"}

\* lines 36-81, 147-151, 377-379: the Pay button is pressed; it is rendered
\* only with complete driver data and is disabled while loading
HandlePayment ==
    /\ bookRide.pc = "rendered"
    /\ ~isDriverDataIncomplete
    /\ ~bookRide.loading
    /\ ~bookRide.success
    /\ bookRide.attempts < MaxAttempts
    /\ bookRide' = [bookRide EXCEPT !.pc = "initialize", !.loading = TRUE,
                                    !.attempts = @ + 1,
                                    !.createResult = "none", !.initResult = "none",
                                    !.presentResult = "none", !.rideResult = "none"]
    /\ UNCHANGED outsideBookRide

\* lines 85-113 (and 153-156): the amount is validated, then the
\* payment-intent creation request is sent
InitializePaymentSheet ==
    /\ bookRide.pc = "initialize"
    /\ LET amount == AmountOf(Get(driverDetails, "price"))
       IN  bookRide' =
               IF BelowMinimum(parseFloat(amount))
               THEN GiveUp(bookRide)
               ELSE [bookRide EXCEPT !.pc = "awaitCreate",
                                     !.created = Append(@, amount)]
    /\ UNCHANGED outsideBookRide

\* lines 100-118, 140-144: the response of /(api)/(stripe)/create
CreateResponds(r) ==
    /\ bookRide.pc = "awaitCreate"
    /\ bookRide' =
           IF r = "ok"
           THEN [bookRide EXCEPT !.pc = "awaitInitSheet", !.createResult = r]
           ELSE GiveUp([bookRide EXCEPT !.createResult = r])
    /\ UNCHANGED outsideBookRide

\* lines 120-139, 151-158: initPaymentSheet settles; on success
\* handlePayment goes on to presentPaymentSheet
InitSheetResponds(r) ==
    /\ bookRide.pc = "awaitInitSheet"
    /\ bookRide' =
           IF r = "ok"
           THEN [bookRide EXCEPT !.pc = "awaitPresent", !.initResult = r,
                                 !.presented = @ + 1]
           ELSE GiveUp([bookRide EXCEPT !.initResult = r])
    /\ UNCHANGED outsideBookRide

\* lines 158-193, 208-212: presentPaymentSheet settles; without an error the
\* ride creation request is sent
PresentReturns(r) ==
    /\ bookRide.pc = "awaitPresent"
    /\ bookRide' =
           IF r = "throw" \/ PaymentError(r)
           THEN GiveUp([bookRide EXCEPT !.presentResult = r])
           ELSE [bookRide EXCEPT !.pc = "awaitRide", !.presentResult = r,
                                 !.rides = Append(@, FarePrice(Get(driverDetails, "price")))]
    /\ UNCHANGED outsideBookRide

\* lines 174-207: the response of /(api)/ride/create
RideResponds(r) ==
    /\ bookRide.pc = "awaitRide"
    /\ bookRide' =
           IF r = "ok"
           THEN [bookRide EXCEPT !.pc = "timer", !.rideResult = r]
           ELSE OnRideError([bookRide EXCEPT !.rideResult = r])
    /\ UNCHANGED outsideBookRide

\* lines 196-199: the 500 ms timer fires
TimerFires ==
    /\ bookRide.pc = "timer"
    /\ bookRide' = [bookRide EXCEPT !.pc = "rendered", !.loading = FALSE,
                                    !.success = TRUE]
    /\ UNCHANGED outsideBookRide

\* line 402: the success modal is dismissed
DismissSuccess ==
    /\ bookRide.pc = "rendered"
    /\ bookRide.success
    /\ bookRide' = [bookRide EXCEPT !.success = FALSE]
    /\ UNCHANGED outsideBookRide

\* the steps of a running handlePayment
BookRideProgress ==
    \/ InitializePaymentSheet
    \/ \E r \in {"ok", "noIntent", "throw"} : CreateResponds(r)
    \/ \E r \in {"ok", "error", "throw"} : InitSheetResponds(r)
    \/ \E r \in {"ok", "Canceled", "Failed", "throw"} : PresentReturns(r)
    \/ \E r \in {"ok", "throw"} : RideResponds(r)
    \/ TimerFires

NextBookRide ==
    \/ HandlePayment
    \/ BookRideProgress
    \/ DismissSuccess

SpecBookRide == InitBookRide /\ [][NextBookRide]_vars

\* every await of handlePayment settles and the timer fires
FairSpecBookRide == SpecBookRide /\ WF_vars(BookRideProgress)

-----------------------------------------------------------------------------
(* The Payment component (src/scripts/seed.ts, from line 139)              *)

\* confirmations of the payment in one presented sheet
MaxConfirms == 2

\* the amount prop: a price string
PaymentAmounts == {Fixed2(50), Fixed2(750)}

\* what the Payment component does not write
outsidePayment ==
    <<markers, userLatitude, userLongitude, destinationLatitude,
      destinationLongitude, geoapifyAPI, pc, task, order, results, drivers,
      regionArgs, region, bookRide, home>>

\* lines 152-171: the component as first rendered
PaymentRendered(amount) ==
    [pc |-> "rendered", amount |-> amount,
     loading |-> FALSE, success |-> FALSE,
     opens |-> 0,              \* invocations of openPaymentSheet so far
     initResult |-> "none",    \* outcome of initPaymentSheet in this invocation
     presented |-> 0,          \* calls of presentPaymentSheet so far
     confirms |-> 0,           \* invocations of confirmHandler so far
     handler |-> "none",       \* position of the running confirmHandler
     called |-> 0,             \* calls of intentCreationCallback by this handler
     callback |-> "none",      \* what intentCreationCallback was called with
     createResult |-> "none",  \* outcomes of the requests of this handler
     payResult |-> "none",
     rideResult |-> "none",
     rides |-> <<>>]           \* fare_price of the ride creation requests sent

InitPayment ==
    /\ markers = <<>>
    /\ userLatitude = Null
    /\ userLongitude = Null
    /\ destinationLatitude = Null
    /\ destinationLongitude = Null
    /\ geoapifyAPI = Undefined
    /\ pc = "idle"
    /\ task = <<>>
    /\ order = <<>>
    /\ results = ReturnedUndefined
    /\ drivers = <<>>
    /\ regionArgs = NoRegionArgs
    /\ region = NoRegion
    /\ bookRide = Unmounted
    /\ payment \in {PaymentRendered(amount) : amount \in PaymentAmounts}
    /\ home = Unmounted

\* lines 173-175, 299-304: the Confirm Ride button is pressed
OpenPaymentSheet ==
    /\ payment.pc = "rendered"
    /\ ~payment.loading
    /\ ~payment.success
    /\ payment.opens < MaxAttempts
    /\ payment' = [payment EXCEPT !.pc = "awaitInit", !.loading = TRUE,
                                  !.opens = @ + 1, !.initResult = "none",
                                  !.handler = "none", !.called = 0,
                                  !.callback = "none"]
    /\ UNCHANGED outsidePayment

\* lines 186-187, 291-294 and 175-177: initPaymentSheet settles,
\* initializePaymentSheet returns and openPaymentSheet calls
\* presentPaymentSheet
PaymentInitSettles(r) ==
    /\ payment.pc = "awaitInit"
    /\ payment' = [payment EXCEPT !.pc = "awaitPresent", !.initResult = r,
                                  !.loading = IF r = "error" THEN FALSE ELSE @,
                                  !.presented = @ + 1]
    /\ UNCHANGED outsidePayment

\* lines 194-217: the presented sheet invokes confirmHandler, which sends
\* the create request; after an error callback the payment can be confirmed
\* again in the same sheet
ConfirmHandler ==
    /\ payment.pc = "awaitPresent"
    /\ payment.initResult = "ok"
    /\ payment.handler = "none" \/ (payment.handler = "ended" /\ payment.callback = "error")
    /\ payment.confirms < MaxConfirms
    /\ payment' = [payment EXCEPT !.handler = "awaitCreate", !.confirms = @ + 1,
                                  !.called = 0, !.callback = "none",
                                  !.createResult = "none", !.payResult = "none",
                                  !.rideResult = "none"]
    /\ UNCHANGED outsidePayment

\* lines 275-285: the catch of confirmHandler
OnPaymentError(p) ==
    [p EXCEPT !.handler = "ended", !.loading = FALSE,
              !.called = @ + 1, !.callback = "error"]

\* lines 203-219: the response of /(api)/(stripe)/create; without a
\* client_secret the handler falls through both ifs and returns
PaymentCreateResponds(r) ==
    /\ payment.handler = "awaitCreate"
    /\ payment' =
           CASE r = "ok" -> [payment EXCEPT !.handler = "awaitPay", !.createResult = r]
             [] r = "noSecret" -> [payment EXCEPT !.handler = "ended", !.createResult = r]
             [] OTHER -> OnPaymentError([payment EXCEPT !.createResult = r])
    /\ UNCHANGED outsidePayment

\* lines 223-258: the response of /(api)/(stripe)/pay; with a client_secret
\* the ride creation request is sent
PayResponds(r) ==
    /\ payment.handler = "awaitPay"
    /\ payment' =
           CASE r = "ok" ->
                    [payment EXCEPT !.handler = "awaitRide", !.payResult = r,
                                    !.rides = Append(@, Times100(parseInt(payment.amount)))]
             [] r = "noSecret" -> [payment EXCEPT !.handler = "ended", !.payResult = r]
             [] OTHER -> OnPaymentError([payment EXCEPT !.payResult = r])
    /\ UNCHANGED outsidePayment

\* lines 240-273: the response of /(api)/ride/create; on success the
\* callback gets the client secret and the timer is set
PaymentRideResponds(r) ==
    /\ payment.handler = "awaitRide"
    /\ payment' =
           IF r = "ok"
           THEN [payment EXCEPT !.handler = "timer", !.rideResult = r,
                                !.called = @ + 1, !.callback = "clientSecret"]
           ELSE OnPaymentError([payment EXCEPT !.rideResult = r])
    /\ UNCHANGED outsidePayment

\* lines 268-272: the 500 ms timer fires
PaymentTimerFires ==
    /\ payment.handler = "timer"
    /\ payment' = [payment EXCEPT !.handler = "ended", !.loading = FALSE,
                                  !.success = TRUE]
    /\ UNCHANGED outsidePayment

\* lines 177-183: presentPaymentSheet settles: without error once the
\* callback got a client secret, with an error otherwise (cancelled, failed)
PaymentPresentReturns(r) ==
    /\ payment.pc = "awaitPresent"
    /\ payment.handler \in {"none", "timer", "ended"}
    /\ (r = "ok") = (payment.callback = "clientSecret")
    /\ payment' = [payment EXCEPT !.pc = "rendered",
                                  !.loading = IF r = "ok" THEN @ ELSE FALSE,
                                  !.handler = IF @ = "timer" THEN @ ELSE "none"]
    /\ UNCHANGED outsidePayment

\* line 308: the success modal is dismissed
PaymentDismissSuccess ==
    /\ payment.pc = "rendered"
    /\ payment.success
    /\ payment' = [payment EXCEPT !.success = FALSE]
    /\ UNCHANGED outsidePayment

\* the steps of a running openPaymentSheet and confirmHandler
PaymentProgress ==
    \/ \E r \in {"ok", "error"} : PaymentInitSettles(r)
    \/ \E r \in {"ok", "noSecret", "throw"} : PaymentCreateResponds(r)
    \/ \E r \in {"ok", "noSecret", "throw"} : PayResponds(r)
    \/ \E r \in {"ok", "throw"} : PaymentRideResponds(r)
    \/ PaymentTimerFires

NextPayment ==
    \/ OpenPaymentSheet
    \/ ConfirmHandler
    \/ PaymentProgress
    \/ \E r \in {"ok", "Canceled", "Failed"} : PaymentPresentReturns(r)
    \/ PaymentDismissSuccess

SpecPayment == InitPayment /\ [][NextPayment]_vars

\* every await of openPaymentSheet and confirmHandler settles, the timer fires
FairSpecPayment == SpecPayment /\ WF_vars(PaymentProgress)

-----------------------------------------------------------------------------
(* The home screen (src/app/(root)/(tabs)/home.tsx, Page): requestLocation *)
(* and what invokes it.  The state updates an invocation makes between two *)
(* awaits are rendered together.                                           *)

\* invocations of requestLocation in one visit of the screen
MaxInvocations == 3

Invocations == 1..MaxInvocations

\* what the home screen does not write
outsideHome ==
    <<markers, userLatitude, userLongitude, destinationLatitude,
      destinationLongitude, geoapifyAPI, pc, task, order, results, drivers,
      regionArgs, region, bookRide, payment>>

\* an invocation of requestLocation that has not started
NotInvoked ==
    [pc |-> "idle", by |-> "none", enabled |-> "none", status |-> "none",
     stored |-> FALSE]

\* lines 20-28: the screen as first rendered, before its effects ran
HomeRendered ==
    [pc |-> "rendered",
     hasPermission |-> FALSE,
     locationLoading |-> TRUE,
     locationError |-> "null",
     appState |-> "active",        \* appState.current
     userLocation |-> "null",      \* the address of the location in the store
     alerts |-> 0,                 \* alerts with a retry button on display
     timer |-> FALSE,              \* the 2 s auto-retry timer is set
     started |-> 0,                \* invocations of requestLocation so far
     inv |-> [i \in Invocations |-> NotInvoked]]

InitHome ==
    /\ markers = <<>>
    /\ userLatitude = Null
    /\ userLongitude = Null
    /\ destinationLatitude = Null
    /\ destinationLongitude = Null
    /\ geoapifyAPI = Undefined
    /\ pc = "idle"
    /\ task = <<>>
    /\ order = <<>>
    /\ results = ReturnedUndefined
    /\ drivers = <<>>
    /\ regionArgs = NoRegionArgs
    /\ region = NoRegion
    /\ bookRide = Unmounted
    /\ payment = Unmounted
    /\ home = HomeRendered

\* lines 145-155: the effect on [locationError], run after the render that
\* follows a step: a change of locationError clears the timer, and the timer
\* is set when there is an error and locationLoading is false
RetryEffect(before, after) ==
    IF after.locationError = before.locationError
    THEN after
    ELSE [after EXCEPT !.timer = (after.locationError # "null" /\ ~after.locationLoading)]

\* lines 44-50: requestLocation runs up to its first await
requestLocation(h, by) ==
    [h EXCEPT !.locationLoading = TRUE, !.locationError = "null",
              !.started = @ + 1,
              !.inv[h.started + 1] = [NotInvoked EXCEPT !.pc = "awaitEnabled", !.by = by]]

\* lines 52-59 and 66-72: an early return with an error
EndWithError(h, i, error) ==
    [h EXCEPT !.locationError = error, !.locationLoading = FALSE,
              !.hasPermission = FALSE, !.inv[i].pc = "done"]

\* lines 90-117: the catch of requestLocation, which shows an alert with a
\* retry button
CatchLocationError(h, i, message) ==
    [h EXCEPT !.locationLoading = FALSE, !.hasPermission = FALSE,
              !.locationError = IF message = "unavailable"
                                THEN "location_unavailable" ELSE "unknown_error",
              !.alerts = @ + 1, !.inv[i].pc = "done"]

\* line 120-121: the mount effect invokes requestLocation
Mount ==
    /\ home.pc = "rendered"
    /\ home' = RetryEffect(home, requestLocation([home EXCEPT !.pc = "mounted"], "mount"))
    /\ UNCHANGED outsideHome

\* lines 50-61: Location.hasServicesEnabledAsync settles
EnabledSettles(i, r) ==
    /\ home.pc = "mounted"
    /\ home.inv[i].pc = "awaitEnabled"
    /\ home' = RetryEffect(home,
           CASE r = "true" -> [home EXCEPT !.inv[i].pc = "awaitPermission",
                                          !.inv[i].enabled = r]
             [] r = "false" -> EndWithError([home EXCEPT !.inv[i].enabled = r],
                                            i, "location_disabled")
             [] OTHER -> CatchLocationError(home, i, r))
    /\ UNCHANGED outsideHome

\* lines 63-75: Location.requestForegroundPermissionsAsync settles
PermissionSettles(i, r) ==
    /\ home.pc = "mounted"
    /\ home.inv[i].pc = "awaitPermission"
    /\ home' = RetryEffect(home,
           CASE r = "granted" -> [home EXCEPT !.inv[i].pc = "awaitPosition",
                                             !.inv[i].status = r,
                                             !.hasPermission = TRUE]
             [] r = "denied" -> EndWithError([home EXCEPT !.inv[i].status = r],
                                             i, "permission_denied")
             [] OTHER -> CatchLocationError(home, i, r))
    /\ UNCHANGED outsideHome

\* lines 77-89: Location.getCurrentPositionAsync settles
PositionSettles(i, r) ==
    /\ home.pc = "mounted"
    /\ home.inv[i].pc = "awaitPosition"
    /\ home' = RetryEffect(home,
           IF r = "ok"
           THEN [home EXCEPT !.userLocation = "Current Location",
                             !.locationLoading = FALSE,
                             !.locationError = "null",
                             !.inv[i].stored = TRUE, !.inv[i].pc = "done"]
           ELSE CatchLocationError(home, i, r))
    /\ UNCHANGED outsideHome

\* lines 103 and 113: the retry button of an alert is pressed
AlertRetry ==
    /\ home.pc = "mounted"
    /\ home.alerts > 0
    /\ home.started < MaxInvocations
    /\ home' = RetryEffect(home, requestLocation([home EXCEPT !.alerts = @ - 1], "alert"))
    /\ UNCHANGED outsideHome

\* lines 102 and 112: an alert is cancelled
AlertCancel ==
    /\ home.pc = "mounted"
    /\ home.alerts > 0
    /\ home' = [home EXCEPT !.alerts = @ - 1]
    /\ UNCHANGED outsideHome

\* lines 148-151: the auto-retry timer fires
RetryTimerFires ==
    /\ home.pc = "mounted"
    /\ home.timer
    /\ home.started < MaxInvocations
    /\ home' = RetryEffect(home, requestLocation([home EXCEPT !.timer = FALSE], "timer"))
    /\ UNCHANGED outsideHome

\* lines 210-284: the Try Again and Enable Location buttons, rendered when
\* locationLoading is false and there is an error or no permission
RetryPressed ==
    /\ home.pc = "mounted"
    /\ ~home.locationLoading
    /\ home.locationError # "null" \/ ~home.hasPermission
    /\ home.started < MaxInvocations
    /\ home' = RetryEffect(home, requestLocation(home, "button"))
    /\ UNCHANGED outsideHome

\* lines 120-142: the listener is registered once, by the effect with no
\* dependencies, so the locationError it reads is the one of the first render
ListenerLocationError == HomeRendered.locationError

\* lines 124-137: the app state changes and the listener runs
AppStateChange(nextAppState) ==
    /\ home.pc = "mounted"
    /\ nextAppState # home.appState
    /\ LET h == [home EXCEPT !.appState = nextAppState]
       IN  home' =
               IF /\ home.appState \in {"inactive", "background"}
                  /\ nextAppState = "active"
                  /\ ListenerLocationError # "null"
                  /\ home.started < MaxInvocations
               THEN RetryEffect(home, requestLocation(h, "listener"))
               ELSE h
    /\ UNCHANGED outsideHome

NextHome ==
    \/ Mount
    \/ \E i \in Invocations, r \in {"true", "false", "throw"} : EnabledSettles(i, r)
    \/ \E i \in Invocations, r \in {"granted", "denied", "throw"} : PermissionSettles(i, r)
    \/ \E i \in Invocations, r \in {"ok", "unavailable", "throw"} : PositionSettles(i, r)
    \/ AlertRetry
    \/ AlertCancel
    \/ RetryTimerFires
    \/ RetryPressed
    \/ \E nextAppState \in {"active", "inactive", "background"} :
           AppStateChange(nextAppState)

SpecHome == InitHome /\ [][NextHome]_vars

-----------------------------------------------------------------------------
(* Properties of calculateDriverTimes                                      *)

ReturnedAList == pc = "returned" /\ results.t = "list"

Done(i) == task[i].pc = "done"

\* C1: a returned list has the length of the input marker list and its i-th
\* entry carries the id of the i-th input marker, whatever the order in
\* which the driver tasks completed.
C1_OrderPreserved ==
    ReturnedAList =>
        /\ Len(results.list) = Len(markers)
        /\ \A i \in 1..Len(markers) : results.list[i].id = markers[i].id

\* C1 witness: a list was returned although the second task settled first.
C1_Witness ==
    /\ ReturnedAList
    /\ Len(markers) = 2
    /\ order = <<2, 1>>
    /\ results.list[1].id = markers[1].id
    /\ results.list[1].id # results.list[2].id

\* C2: every entry of a returned list carries a numeric, non-negative time
\* and a price with two decimals, for every outcome of the routing calls.
C2_NumericTimeAndPrice ==
    ReturnedAList =>
        \A i \in 1..Len(results.list) :
            /\ results.list[i].time.t = "num"
            /\ results.list[i].time.v >= 0
            /\ results.list[i].price.t = "fixed2"

\* C3: on every path that produces an entry, the price is the time in
\* minutes times 0.5, rounded to two decimals (the string of toFixed(2); for
\* a time that is not a number this is the string toFixed gives for NaN).
C3_PriceFromTime ==
    ReturnedAList =>
        \A i \in 1..Len(results.list) :
            LET e == results.list[i]
            IN  IF e.time.t = "num"
                THEN /\ e.price.t = "fixed2"
                     \* |price - time * 0.5| <= half a cent, in units of 1/Scale cent
                     /\ 2 * e.price.cents * Scale - 100 * e.time.v <= Scale
                     /\ 100 * e.time.v - 2 * e.price.cents * Scale <= Scale
                ELSE e.price = NaNString

\* C3 witness: a returned list holds an entry of the leg A fallback path and an
\* entry of the per-driver catch, both with a positive time.
C3_Witness ==
    /\ ReturnedAList
    /\ \E i, j \in 1..Len(results.list) :
        /\ task[i].via = "fallbackA"
        /\ task[j].via = "catch"
        /\ results.list[i].time.t = "num" /\ results.list[i].time.v > 0
        /\ results.list[j].time.t = "num" /\ results.list[j].time.v > 0

\* C4: the call returns no result if and only if a rider or destination
\* coordinate or the credential is missing.
C4_AbsentIffMissing ==
    pc = "returned" =>
        (results.t = "undef" <=>
            \/ userLatitude = Null
            \/ userLongitude = Null
            \/ destinationLatitude = Null
            \/ destinationLongitude = Null
            \/ geoapifyAPI = Undefined)

\* C5: no exception leaves a driver task: a task is never rejected, a task
\* whose routing call or decoding threw is done, and every done task holds an
\* entry of its marker with a time and a price set.
C5_TaskNeverRaises ==
    \A i \in DOMAIN task :
        /\ task[i].pc # "rejected"
        /\ (task[i].respA.k = "throw" \/ task[i].respB.k = "throw") => Done(i)
        /\ Done(i) =>
            /\ task[i].entry.id = markers[i].id
            /\ task[i].entry.time.t \in {"num", "nan"}
            /\ task[i].entry.price.t \in {"fixed2", "NaN"}

\* C5 witness: a task whose leg B call threw after leg A was obtained is done
\* with an entry.
C5_Witness ==
    \E i \in DOMAIN task :
        /\ task[i].respA.k = "time"
        /\ task[i].respB.k = "throw"
        /\ Done(i)
        /\ task[i].entry.time.t = "num"

\* seconds at 40 km/h for a distance in km: distance / 40 hours
SecondsAt40(distance) == MulK(distance, 90)

DriverToRider(i) ==
    calculateDistance(markers[i].latitude, markers[i].longitude,
                      userLatitude, userLongitude)

RiderToDestination ==
    calculateDistance(userLatitude, userLongitude,
                      destinationLatitude, destinationLongitude)

\* the task returned from its try block, not from its catch
Resolved(i) == Done(i) /\ task[i].via # "catch"

\* C6: for each leg independently, a response with absent or empty features
\* contributes the fallback time of that leg's own distance and a usable
\* response contributes the provider's seconds; with both legs empty the time
\* is (d(driver, rider) + d(rider, destination)) / 40 * 60 minutes.
C6_PerLegSubstitution ==
    \A i \in DOMAIN task :
        Resolved(i) =>
            /\ task[i].respA.k = "empty" =>
                   task[i].timeToUser = SecondsAt40(DriverToRider(i))
            /\ task[i].respA.k = "time" =>
                   task[i].timeToUser = FromInt(task[i].respA.time)
            /\ task[i].respB.k = "empty" =>
                   task[i].timeToDestination = SecondsAt40(RiderToDestination)
            /\ task[i].respB.k = "time" =>
                   task[i].timeToDestination = FromInt(task[i].respB.time)
            /\ (task[i].respA.k = "empty" /\ task[i].respB.k = "empty") =>
                   task[i].entry.time =
                       MulK(DivK(Add(DriverToRider(i), RiderToDestination), 40), 60)

\* C7: the leg B time used in the sum is the same for the same leg B
\* response, whether leg A was routed or replaced by its fallback.
C7_SameLegBRule ==
    \A i, j \in DOMAIN task :
        (Resolved(i) /\ Resolved(j) /\ task[i].respB = task[j].respB) =>
            task[i].timeToDestination = task[j].timeToDestination

\* C8 (as claimed): a routing call answered with zero features gives the
\* driver the time and price the same call gives when it throws.
C8_EmptyLikeException ==
    \A i \in DOMAIN task :
        (Done(i) /\ (task[i].respA.k = "empty" \/ task[i].respB.k = "empty")) =>
            /\ task[i].entry.time = CatchEntry(markers[i]).time
            /\ task[i].entry.price = CatchEntry(markers[i]).price

\* C8 (amended): zero features on a leg is recovered inside the try block,
\* not by the catch: the leg contributes the fallback time of its own
\* distance, never zero by default, and the driver's time is the sum of the
\* two leg times over 60; it equals the time of the exception path exactly
\* when that sum is the rider-to-destination fallback alone.
C8_EmptyRecoveredPerLeg ==
    \A i \in DOMAIN task :
        (Done(i) /\ task[i].respB.k # "throw"
                 /\ (task[i].respA.k = "empty" \/ task[i].respB.k = "empty")) =>
            LET usedA == IF task[i].respA.k = "empty"
                         THEN SecondsAt40(DriverToRider(i))
                         ELSE task[i].timeToUser
                usedB == IF task[i].respB.k = "empty"
                         THEN SecondsAt40(RiderToDestination)
                         ELSE task[i].timeToDestination
            IN  /\ task[i].via \in {"fallbackA", "fallbackB"}
                /\ task[i].entry.time = DivK(Add(usedA, usedB), 60)
                /\ (task[i].entry.time = CatchEntry(markers[i]).time) <=>
                       (Add(usedA, usedB) = SecondsAt40(RiderToDestination))

\* C8 witness: a task whose leg A had zero features and whose leg B was
\* routed is done with a time other than that of the exception path.
C8_Witness ==
    \E i \in DOMAIN task :
        /\ Done(i)
        /\ task[i].respA.k = "empty"
        /\ task[i].respB.k = "time"
        /\ task[i].timeToUser.v > 0
        /\ task[i].entry.time # CatchEntry(markers[i]).time

\* C9: a task in which a routing call or the decoding threw gives its driver
\* the time d(rider, destination) / 40 * 60 minutes and the price of that
\* time, whatever the driver's position and the leg result already obtained;
\* so all such drivers get the same time and price.
C9_TripLevelOnThrow ==
    \A i \in DOMAIN task :
        /\ (Done(i) /\ (task[i].respA.k = "throw" \/ task[i].respB.k = "throw"))
               => task[i].via = "catch"
        /\ (Done(i) /\ task[i].via = "catch") =>
            /\ task[i].entry.time = Num((RiderToDestination.v * 3) \div 2)
            /\ task[i].entry.price = Fixed2(75 * (RiderToDestination.v \div Scale))
            /\ \A j \in DOMAIN task :
                   (Done(j) /\ task[j].via = "catch") =>
                       /\ task[j].entry.time = task[i].entry.time
                       /\ task[j].entry.price = task[i].entry.price

\* C9 witness: a driver away from the rider, whose leg A was routed and whose
\* leg B call threw, is done with the trip-level time.
C9_Witness ==
    \E i \in DOMAIN task :
        /\ Done(i)
        /\ task[i].respA.k = "time" /\ task[i].respA.time > 0
        /\ task[i].respB.k = "throw"
        /\ DriverToRider(i).v > 0
        /\ RiderToDestination.v > 0
        /\ task[i].entry.time = Num((RiderToDestination.v * 3) \div 2)

\* C10: the entry of driver i is a function of driver i's marker, of the
\* rider and destination and of the responses to driver i's own routing
\* calls, under every interleaving with the other drivers' tasks.
C10_EntryOfOwnInputs ==
    \A i \in DOMAIN task :
        Done(i) => task[i].entry = DriverEntry(markers[i], task[i].respA, task[i].respB)

\* C10 witness: driver 2 was routed on both legs after driver 1's task had
\* already ended in its catch, and driver 2's entry is the routed one.
C10_Witness ==
    /\ Len(markers) = 2
    /\ order = <<1, 2>>
    /\ task[1].via = "catch"
    /\ task[2].via = "routed"
    /\ task[2].respA.k = "time" /\ task[2].respB.k = "time"
    /\ task[2].entry.time =
           DivK(FromInt(task[2].respA.time + task[2].respB.time), 60)
    /\ task[2].entry.time # task[1].entry.time

\* C11: when the fan-out fails (a task promise rejects), the call returns
\* a list with one entry per input marker, each carrying the marker's id,
\* the time d(rider, destination) / 40 * 60 minutes and the price of that
\* time; the exception is not propagated.
C11_BatchFallbackOnFanOutFailure ==
    (pc = "returned" /\ \E i \in DOMAIN task : task[i].pc = "rejected") =>
        /\ results.t = "list"
        /\ Len(results.list) = Len(markers)
        /\ \A i \in 1..Len(markers) :
            /\ results.list[i].id = markers[i].id
            /\ results.list[i].time = Num((RiderToDestination.v * 3) \div 2)
            /\ results.list[i].price = Fixed2(75 * (RiderToDestination.v \div Scale))

\* C11 witness: the call returned a two-entry list after the first task was
\* rejected while the second driver, away from the rider, was still pending.
C11_Witness ==
    /\ pc = "returned"
    /\ Len(markers) = 2
    /\ task[1].pc = "rejected"
    /\ task[2].pc \in {"legA", "legB"}
    /\ DriverToRider(2).v > 0
    /\ Len(results.list) = 2
    /\ results.list[2].time.v > 0

C13_ReturnAfterAllTasks ==
    /\ ReturnedAList =>
           \A i \in DOMAIN task :
               /\ Done(i)
               /\ results.list[i] = task[i].entry
    /\ pc = "awaiting" =>
           \A i \in DOMAIN task : Len(task[i].requests) >= 1
    /\ \A i, j \in DOMAIN task :
           task[i].respA # NoResp => task[j].pc # "idle"

\* C13 witness: a list of two was returned, the first driver routed on both
\* legs and the second recovered by its catch after two requests.
C13_Witness ==
    /\ ReturnedAList
    /\ Len(markers) = 2
    /\ task[1].via = "routed"
    /\ task[2].via = "catch"
    /\ Len(task[2].requests) = 2

\* C14: if every routing call eventually returns or throws, every call of
\* calculateDriverTimes eventually completes, with the absent result or with
\* a list of one entry per marker.
C14_EventuallyReturns ==
    <>(/\ pc = "returned"
       /\ \/ results.t = "undef"
          \/ results.t = "list" /\ Len(results.list) = Len(markers))

\* C14 witness: the call has completed with a list of two after a routing
\* call of each driver threw.
C14_Witness ==
    /\ ReturnedAList
    /\ Len(results.list) = 2
    /\ task[1].respA.k = "throw"
    /\ task[2].respB.k = "throw"

\* a field of an object is set: present and not undefined
Has(obj, field) == field \in DOMAIN obj /\ obj[field].t # "undef"

C15_Unannotated ==
    /\ Len(drivers) = 2
    /\ ~ Has(drivers[1], "time") /\ ~ Has(drivers[1], "price")

\* C16: when both legs return usable results the driver's time is
\* (legA_seconds + legB_seconds) / 60 minutes and the price is that time
\* times 0.5 with two decimals; 300 s and 600 s give 15 minutes and "7.50".
C16_RoutedSum ==
    \A i \in DOMAIN task :
        (Done(i) /\ task[i].respA.k = "time" /\ task[i].respB.k = "time") =>
            LET seconds == task[i].respA.time + task[i].respB.time
                e == task[i].entry
            IN  /\ e.time.t = "num"
                /\ e.time.v * 60 = seconds * Scale
                /\ e.price.t = "fixed2"
                /\ e.price.cents * 120 - seconds * 100 <= 60
                /\ seconds * 100 - e.price.cents * 120 <= 60
                /\ (task[i].respA.time = 300 /\ task[i].respB.time = 600) =>
                       e.time = FromInt(15) /\ e.price = Fixed2(750)

\* C16 witness: a driver routed with 300 s and 600 s has 15 minutes and 7.50.
C16_Witness ==
    \E i \in DOMAIN task :
        /\ Done(i)
        /\ task[i].respA = Resp("time", 300)
        /\ task[i].respB = Resp("time", 600)
        /\ task[i].entry.time = FromInt(15)
        /\ task[i].entry.price = Fixed2(750)

\* the list a call returns, as a function of its arguments and of the
\* routing outcomes of each driver alone
ListOfInputsAndOutcomes ==
    [i \in DOMAIN markers |->
        DriverEntry(markers[i], task[i].respA, task[i].respB)]

\* C17: a call is safe to retry: the returned list is determined by the
\* markers, the rider, the destination and the routing outcomes (whatever
\* the order in which the tasks completed), every result carries all the
\* fields of its marker, and no step of the call changes the input markers.
C17_SafeToRetry ==
    /\ [](ReturnedAList =>
            /\ results.list = ListOfInputsAndOutcomes
            /\ \A i \in DOMAIN markers :
                   \A f \in DOMAIN markers[i] :
                       /\ f \in DOMAIN results.list[i]
                       /\ results.list[i][f] = markers[i][f])
    /\ [][markers' = markers]_vars

\* C17 witness: a call whose second driver completed first has returned the
\* list of its inputs and outcomes, and the markers are the ones passed in.
C17_Witness ==
    /\ ReturnedAList
    /\ order = <<2, 1>>
    /\ results.list = ListOfInputsAndOutcomes
    /\ markers = [i \in 1..2 |-> MarkerAt(i)]
    /\ \A i \in 1..2 : DOMAIN results.list[i] = DOMAIN markers[i] \cup {"time", "price"}

------------------------------------------------------------------------------
(* Properties of calculateRegion                                           *)

\* a coordinate that was given: a number (coordinate 0 included)
Present(x) == x.t = "num"

RiderPresent == Present(regionArgs.userLatitude) /\ Present(regionArgs.userLongitude)
RiderAbsent == ~Present(regionArgs.userLatitude) /\ ~Present(regionArgs.userLongitude)

DestinationPresent ==
    Present(regionArgs.destinationLatitude) /\ Present(regionArgs.destinationLongitude)
DestinationAbsent ==
    ~Present(regionArgs.destinationLatitude) /\ ~Present(regionArgs.destinationLongitude)

RegionReturned == region # NoRegion

\* C18: with the rider absent the region is the fixed default whatever the
\* destination; with the rider present and the destination absent it is
\* centered exactly on the rider with both deltas 0.01.
C18_CasesInOrder ==
    RegionReturned =>
        /\ RiderAbsent => region = DefaultRegion
        /\ (RiderPresent /\ DestinationAbsent) =>
               /\ region.latitude = regionArgs.userLatitude
               /\ region.longitude = regionArgs.userLongitude
               /\ region.latitudeDelta = DefaultDelta
               /\ region.longitudeDelta = DefaultDelta

\* x lies strictly between center - delta / 2 and center + delta / 2
StrictlyWithin(x, center, delta) ==
    /\ 2 * center.v - delta.v < 2 * x.v
    /\ 2 * x.v < 2 * center.v + delta.v

\* C19: for a rider and a destination that differ, the bounding box of the
\* region strictly contains both points on both axes.
C19_BoxStrictlyContains ==
    (/\ RegionReturned
     /\ RiderPresent
     /\ DestinationPresent
     /\ \/ regionArgs.userLatitude # regionArgs.destinationLatitude
        \/ regionArgs.userLongitude # regionArgs.destinationLongitude) =>
        /\ StrictlyWithin(regionArgs.userLatitude, region.latitude, region.latitudeDelta)
        /\ StrictlyWithin(regionArgs.destinationLatitude, region.latitude, region.latitudeDelta)
        /\ StrictlyWithin(regionArgs.userLongitude, region.longitude, region.longitudeDelta)
        /\ StrictlyWithin(regionArgs.destinationLongitude, region.longitude, region.longitudeDelta)

\* C20: every returned region has latitudeDelta > 0 and longitudeDelta > 0.
C20_NonDegenerate ==
    RegionReturned =>
        /\ region.latitudeDelta.t = "num" /\ region.latitudeDelta.v > 0
        /\ region.longitudeDelta.t = "num" /\ region.longitudeDelta.v > 0

------------------------------------------------------------------------------
(* The outer handler of calculateDriverTimes                               *)

\* C21: the batch-level fallback branch is never taken: no task promise is
\* ever rejected, and the call returns only through line 191, with the
\* entries of the tasks, all of them done; a routing or decoding exception of
\* a driver ends in that driver's own catch.
C21_OuterHandlerNeverReached ==
    /\ [](\A i \in DOMAIN task :
             /\ task[i].pc # "rejected"
             /\ (task[i].respA.k \in {"throw", "noprops"} \/ task[i].respB.k = "throw")
                    => (Done(i) /\ task[i].via = "catch"))
    /\ [][(pc = "awaiting" /\ pc' = "returned") =>
              /\ \A i \in Indices : Done(i)
              /\ results' = ReturnedList(PromiseAll)]_vars

\* C21 witness: a call returned the tasks' entries although the routing call
\* of one driver threw and the decoding of another driver's response threw.
C21_Witness ==
    /\ ReturnedAList
    /\ \E i, j \in DOMAIN task :
           /\ task[i].respA.k = "throw"
           /\ task[j].respA.k = "noprops"
           /\ Done(i) /\ Done(j)
           /\ results.list[i] = CatchEntry(markers[i])
           /\ results.list[j] = CatchEntry(markers[j])

------------------------------------------------------------------------------
(* Properties of the book-ride screen                                      *)

\* C22: a payment-intent creation request is issued only if the selected
\* driver is in the driver list with a price and a time and the price is at
\* least 0.50; otherwise no request is sent and the payment sheet is never
\* presented.
C22_IntentOnlyForPayableDriver ==
    /\ Len(bookRide.created) > 0 =>
           /\ ~NoDriverDetails
           /\ Get(driverDetails, "time").t = "num"
           /\ Get(driverDetails, "price").t = "fixed2"
           /\ Get(driverDetails, "price").cents >= 50
           /\ \A k \in DOMAIN bookRide.created :
                  bookRide.created[k] = driverDetails.price
    /\ Len(bookRide.created) = 0 => bookRide.presented = 0
    /\ bookRide.presented <= Len(bookRide.created)

\* C22 witness: for a driver priced exactly 0.50 the request was sent and the
\* payment sheet presented.
C22_Witness ==
    /\ Len(bookRide.created) > 0
    /\ bookRide.presented > 0
    /\ Get(driverDetails, "price") = Fixed2(50)

\* C22, the refused side: handlePayment ran for a driver priced 0.25 and
\* ended with no request sent.
C22_Refused ==
    /\ bookRide.attempts > 0
    /\ bookRide.pc = "rendered"
    /\ Get(driverDetails, "price") = Fixed2(25)
    /\ bookRide.created = <<>>

\* C23: the ride creation request is sent only after the payment sheet was
\* initialized and presentPaymentSheet returned without error; the success
\* modal is shown only after the ride creation succeeded, and never after it
\* failed.
C23_StepsInOrder ==
    /\ (bookRide.pc \in {"awaitRide", "timer"} \/ bookRide.rideResult # "none") =>
           /\ bookRide.createResult = "ok"
           /\ bookRide.initResult = "ok"
           /\ bookRide.presentResult = "ok"
    /\ Len(bookRide.rides) <= bookRide.presented
    /\ bookRide.success => bookRide.rideResult = "ok"
    /\ bookRide.rideResult = "throw" => ~bookRide.success

\* C23 witness: the success modal is shown after one ride creation request
\* that succeeded.
C23_Witness ==
    /\ bookRide.success
    /\ Len(bookRide.rides) = 1
    /\ bookRide.rideResult = "ok"
    /\ bookRide.presentResult = "ok"

\* C23, the failing side: the ride creation failed after a payment and the
\* invocation ended without the modal.
C23_RideFailed ==
    /\ bookRide.rideResult = "throw"
    /\ bookRide.presentResult = "ok"
    /\ bookRide.pc = "rendered"
    /\ ~bookRide.success

\* C24: every invocation of handlePayment eventually leaves loading false.
C24_LoadingEventuallyFalse ==
    (bookRide.pc # "unmounted" /\ bookRide.loading) ~> ~bookRide.loading

\* C24 witness: loading is still true after the ride was created, until the
\* timer fires.
C24_Witness ==
    /\ bookRide.pc = "timer"
    /\ bookRide.loading
    /\ bookRide.rideResult = "ok"

\* C25: the fare_price of every ride creation request is the selected
\* driver's two-decimal price times 100.
C25_FareIsPriceInCents ==
    \A k \in DOMAIN bookRide.rides :
        /\ bookRide.rides[k].t = "int"
        /\ bookRide.rides[k].n = Get(driverDetails, "price").cents

------------------------------------------------------------------------------
(* Properties of the Payment component                                     *)

\* C26: every invocation of confirmHandler eventually calls
\* intentCreationCallback exactly once, with a client secret only after the
\* payment confirmation and the ride creation both succeeded and with an
\* error otherwise, and loading eventually becomes false.
C26_CallbackExactlyOnce ==
    /\ [](payment.pc # "unmounted" =>
            /\ payment.called <= 1
            /\ payment.handler = "ended" => payment.called = 1
            /\ payment.callback = "clientSecret" =>
                   (payment.payResult = "ok" /\ payment.rideResult = "ok"))
    /\ (payment.pc # "unmounted" /\ payment.handler = "awaitCreate")
           ~> (payment.called = 1 /\ ~payment.loading)

\* C27: presentPaymentSheet is called only if initPaymentSheet completed
\* without error: while the sheet is being presented the initialization of
\* this invocation was successful.
C27_PresentOnlyAfterInit ==
    (payment.pc = "awaitPresent") => payment.initResult = "ok"

------------------------------------------------------------------------------
(* Properties of the home screen                                           *)

\* the state right after invocation i of requestLocation completed
CompletedWell(h, i) ==
    /\ ~h.locationLoading
    /\ \/ /\ h.inv[i].stored
          /\ h.inv[i].enabled = "true"
          /\ h.inv[i].status = "granted"
          /\ h.userLocation # "null"
          /\ h.locationError = "null"
          /\ h.hasPermission
       \/ /\ ~h.inv[i].stored
          /\ h.locationError # "null"
          /\ ~h.hasPermission

\* C28: when an invocation of requestLocation completes, locationLoading is
\* false and either the location was stored (after services were found
\* enabled and permission granted) with locationError null and hasPermission
\* true, or locationError is non-null with hasPermission false and nothing
\* stored by that invocation.
C28_OutcomeAtCompletion ==
    [][\A i \in Invocations :
           (home.inv[i].pc # "done" /\ home'.inv[i].pc = "done")
               => CompletedWell(home', i)]_vars

\* C29: if requestLocation has ended with a location error and the app goes
\* from inactive or background to active, the listener invokes
\* requestLocation again.
C29_ListenerRetries ==
    [][(/\ home.pc = "mounted"
        /\ home.locationError # "null"
        /\ \A i \in Invocations : home.inv[i].pc \in {"idle", "done"}
        /\ home.started < MaxInvocations
        /\ home.appState \in {"inactive", "background"}
        /\ home'.appState = "active")
           => /\ home'.started = home.started + 1
              /\ home'.inv[home'.started].by = "listener"]_vars

====
